---- MODULE Spec2Model ----
(***************************************************************************)
(* vscode-journal: Journal.getPageForDay, Journal.addMemo and              *)
(* Journal.synchronizeReferencedFiles (src/client/src/journal.ts) as a     *)
(* state machine.  Every promise callback of the source is one atomic      *)
(* step: Q runs a callback to completion before the next one starts.       *)
(***************************************************************************)
EXTENDS Integers, Sequences, FiniteSets, TLC

(* ------------------------------ bounds --------------------------------- *)
MaxCalls == 2
MaxMemos == 1
MaxClock == 1
MaxFaults == 1

Calls == 1..MaxCalls
Memos == 1..MaxMemos

(* ------------------------- numbers and dates --------------------------- *)
\* A JavaScript number: either NaN or an integer.
Num(n) == [isNaN |-> FALSE, val |-> n]
NaN == [isNaN |-> TRUE, val |-> 0]
isNaN(x) == x.isNaN
\* date.setDate(date.getDate() + offset): a NaN offset gives an Invalid Date.
AddDays(now, offset) == IF isNaN(offset) THEN NaN ELSE Num(now + offset.val)

\* Offset 0 is today; the clock supplies the other days.
Offsets == {Num(0), NaN}

(* ------------------------------ page text ------------------------------ *)
TextLine(s) == [kind |-> "text", date |-> Num(0), str |-> s, label |-> ""]
DateLine(d) == [kind |-> "date", date |-> d, str |-> "", label |-> ""]
MemoLine(s) == [kind |-> "memo", date |-> Num(0), str |-> s, label |-> ""]
\* [label](./<page-base-name>/<file>)
LinkLine(lbl, base, file) ==
    [kind |-> "link", date |-> base, str |-> file, label |-> lbl]
HeaderPlaceholder == TextLine("{header}")

\* util.formatDate(date)
formatDate(date) == DateLine(date)

RECURSIVE FirstIndex(_, _, _)
FirstIndex(s, x, i) ==
    IF i > Len(s) THEN 0
    ELSE IF s[i] = x THEN i ELSE FirstIndex(s, x, i + 1)

\* String.prototype.replace with a string pattern: first occurrence only.
ReplaceFirst(s, x, y) ==
    LET i == FirstIndex(s, x, 1)
    IN  IF i = 0 THEN s ELSE [s EXCEPT ![i] = y]

\* journal.page-template.md: it contains a {header} placeholder.
PageTemplates ==
    { <<TextLine("title"), HeaderPlaceholder, TextLine("body")>> }

(* ------------------------------- files --------------------------------- *)
\* util.getFileForDate(date): base/YYYY/MM/DD.ext; the page is named by its
\* date.  The notes folder of a page is named by the same date.
getFileForDate(date) == date
getFileInURI(path) == path

PagePaths == {Num(d) : d \in 0..MaxClock} \cup {NaN}

NoFile == [exists |-> FALSE, content |-> << >>]
File(c) == [exists |-> TRUE, content |-> c]

NoteFiles == {"my_note.md", "todo.md"}
\* util.denormalizeFilename(file): the display name of a normalized file.
denormalizeFilename(file) ==
    CASE file = "my_note.md" -> "my note"
      [] file = "todo.md" -> "todo"
      [] OTHER -> file

VARIABLES
    today,          \* the process clock, in days
    pageTemplate,   \* content of journal.page-template.md
    files,          \* page path -> file on disk
    notes,          \* page path -> files in the page's notes folder
    calls,          \* invocations of getPageForDay
    sync,           \* synchronization pass started by each invocation
    memos,          \* invocations of addMemo
    edits,          \* edits handed to the writer and not yet applied
    faults,         \* I/O operations that have failed so far
    cfg,            \* the settings and the configuration directory on disk
    boot,           \* invocations of getTemplatesDirectory
    lookup,         \* the last inline-template lookup
    ui              \* the commands the user has issued

vars ==
    <<today, pageTemplate, files, notes, calls, sync, memos, edits, faults,
      cfg, boot, lookup, ui>>

(* ------------------------ external collaborators ----------------------- *)
\* vsExt.loadTextDocument(path): the outcomes the document store can give.
LoadOutcomes(file) ==
    IF file.exists THEN {"ok", "ioerror"} ELSE {"notfound", "ioerror"}

IOOutcomes == {"ok", "fail"}

\* The environment lets at most MaxFaults I/O operations fail.
Fault(outcome) ==
    IF outcome \in {"ioerror", "fail"}
    THEN faults < MaxFaults /\ faults' = faults + 1
    ELSE faults' = faults

\* reader.getReferencedFiles(doc): the files linked in the page body.
getReferencedFiles(content) ==
    {content[i].str : i \in {j \in 1..Len(content) : content[j].kind = "link"}}

\* writer.insertContent: the rendered link goes to the end of the page.
InsertLink(content, line) == Append(content, line)

\* writer.writeInputToFile(doc, Position(line, 0), input)
InsertAtLine(content, line, new) ==
    LET k == IF line < Len(content) THEN line ELSE Len(content)
    IN  SubSeq(content, 1, k) \o <<new>> \o SubSeq(content, k + 1, Len(content))

(* ----------------------------- getPageForDay --------------------------- *)
IdleCall ==
    [pc |-> "idle", offset |-> Num(0), path |-> Num(0),
     promise |-> "none", reason |-> "", doc |-> Num(0),
     load |-> "none", headerDate |-> Num(0), content |-> << >>,
     rendered |-> FALSE, createAttempted |-> FALSE, created |-> FALSE,
     clock |-> 0]

IdleSync ==
    [state |-> "none", doc |-> Num(0), scan |-> "none", list |-> "none",
     referenced |-> {}, found |-> {}, issued |-> {}, warned |-> FALSE,
     after |-> {}]

\* Line 149: the guard on the offset.
IsInvalidOffset(offset) == isNaN(offset)

\* Lines 147-155: the deferred is created, a NaN offset rejects it (and the
\* method goes on), the date is computed from the clock and the path is
\* resolved; line 157 then asks the document store for the document.
BeginCall(call, offset, now) ==
    [call EXCEPT !.pc = "loading",
                 !.offset = offset,
                 !.promise = IF IsInvalidOffset(offset) THEN "rejected"
                             ELSE "pending",
                 !.reason = IF IsInvalidOffset(offset)
                            THEN "Journal: Not a valid value for offset"
                            ELSE "",
                 !.path = getFileForDate(AddDays(now, offset)),
                 !.clock = now]

\* Variant: the create branch is taken whether or not the load succeeded.
EntersCreateBranchAlways(outcome) == TRUE

\* Line 160: .catch takes every rejection of path resolution or load.
EntersCreateBranch(outcome) == outcome # "ok"

\* Line 178 with lines 348-351: Q.all over the two collection operations.
BeginSync(doc, completed) ==
    [IdleSync EXCEPT !.state = "collecting", !.doc = doc,
                     !.scan = "pending", !.list = "pending",
                     !.after = completed]

\* The callbacks below take an invocation, inv.call with the pass inv.pass it
\* has started (or not yet), and give the invocation as they leave it.

\* Variant: the synchronization is started from the catch handler, before
\* the page has been created.
CatchLoadStartsSync(inv, outcome, now) ==
    [inv EXCEPT !.call.pc = "templating",
                !.call.load = outcome,
                !.call.headerDate = AddDays(now, inv.call.offset),
                !.pass = BeginSync(inv.call.path, {})]

\* Lines 160-167: the catch handler takes the rejection reason as the path,
\* computes the date again from the clock and asks for the page template.
CatchLoad(inv, outcome, now) ==
    [inv EXCEPT !.call.pc = "templating",
                !.call.load = outcome,
                !.call.headerDate = AddDays(now, inv.call.offset)]

\* Variant: the template is written out as it is.
RenderPageNoHeader(tpl, date) == tpl

\* Line 168: tpl.replace('{header}', this.util.formatDate(date))
RenderPage(tpl, date) == ReplaceFirst(tpl, HeaderPlaceholder, formatDate(date))

\* Lines 168-169: the template has arrived; it is rendered and
\* createSaveLoadTextDocument(path, content) is invoked.
ThenTemplate(inv, tpl) ==
    [inv EXCEPT !.call.pc = "creating",
                !.call.rendered = TRUE,
                !.call.content = RenderPage(tpl, inv.call.headerDate),
                !.call.createAttempted = TRUE]

\* Lines 167-172: the inner chain has no rejection handler, so the inner
\* deferred stays pending when the template or the creation fails.
InnerChainFails(inv) == [inv EXCEPT !.call.pc = "hung"]

\* Variant: the deferred is left to be resolved by the synchronization.
ThenDocumentAwaitsSync(inv, doc, completed) ==
    [inv EXCEPT !.call.pc = "done",
                !.call.doc = doc,
                !.pass = BeginSync(doc, completed)]

\* Lines 176-180: the document is there; the synchronization is started and
\* the deferred is resolved (a no-op on a deferred that is already settled).
ThenDocument(inv, doc, completed) ==
    [inv EXCEPT !.call.pc = "done",
                !.call.doc = doc,
                !.call.promise = IF inv.call.promise = "pending"
                                 THEN "resolved" ELSE inv.call.promise,
                !.pass = BeginSync(doc, completed)]

\* A pass has fully completed when its callbacks have run and the writer
\* holds none of its insertions any more.
PassCompleted(c) ==
    /\ sync[c].state \in {"done", "failed"}
    /\ \A e \in edits : ~(e.kind = "link" /\ e.by = c)

CompletedPasses == {c \in Calls : PassCompleted(c)}
ResolvedCalls == {c \in Calls : calls[c].promise = "resolved"}

Invocation(c) == [call |-> calls[c], pass |-> sync[c]]

\* The user issues one command at a time: an invocation starts when the
\* load-or-create chain of the previous one has come to rest.  The pass the
\* previous one started may still be running.
GetPageForDay(c, offset) ==
    /\ calls[c].pc = "idle"
    /\ ui[c].op = "none"
    /\ \A d \in Calls : d < c => calls[d].pc \in {"done", "hung"}
    /\ calls' = [calls EXCEPT ![c] = BeginCall(@, offset, today)]
    /\ UNCHANGED <<cfg, boot, lookup, ui>>
    /\ UNCHANGED <<today, pageTemplate, files, notes, sync, memos, edits, faults>>

\* Lines 157-160, 176: the document store answers.
LoadDone(c, outcome) ==
    /\ Fault(outcome)
    /\ calls[c].pc = "loading"
    /\ outcome \in LoadOutcomes(files[calls[c].path])
    /\ LET inv == IF EntersCreateBranch(outcome)
                  THEN CatchLoad(Invocation(c), outcome, today)
                  ELSE ThenDocument(
                           [Invocation(c) EXCEPT !.call.load = outcome],
                           calls[c].path, CompletedPasses)
       IN  /\ calls' = [calls EXCEPT ![c] = inv.call]
           /\ sync' = [sync EXCEPT ![c] = inv.pass]
    /\ UNCHANGED <<cfg, boot, lookup, ui>>
    /\ UNCHANGED <<today, pageTemplate, files, notes, memos, edits>>

\* Lines 167-169: config.getPageTemplate() settles.
TemplateDone(c, outcome) ==
    /\ Fault(outcome)
    /\ calls[c].pc = "templating"
    /\ outcome \in IOOutcomes
    /\ LET inv == IF outcome = "ok"
                  THEN ThenTemplate(Invocation(c), pageTemplate)
                  ELSE InnerChainFails(Invocation(c))
       IN  /\ calls' = [calls EXCEPT ![c] = inv.call]
           /\ sync' = [sync EXCEPT ![c] = inv.pass]
    /\ UNCHANGED <<cfg, boot, lookup, ui>>
    /\ UNCHANGED <<today, pageTemplate, files, notes, memos, edits>>

\* Lines 169-170, 176: vsExt.createSaveLoadTextDocument settles.
CreateDone(c, outcome) ==
    /\ Fault(outcome)
    /\ calls[c].pc = "creating"
    /\ outcome \in IOOutcomes
    /\ LET inv == IF outcome = "ok"
                  THEN ThenDocument(
                           [Invocation(c) EXCEPT !.call.created = TRUE],
                           calls[c].path, CompletedPasses)
                  ELSE InnerChainFails(Invocation(c))
       IN  /\ calls' = [calls EXCEPT ![c] = inv.call]
           /\ sync' = [sync EXCEPT ![c] = inv.pass]
    /\ files' = IF outcome = "ok"
                THEN [files EXCEPT ![calls[c].path] = File(calls[c].content)]
                ELSE files
    /\ UNCHANGED <<cfg, boot, lookup, ui>>
    /\ UNCHANGED <<today, pageTemplate, notes, memos, edits>>

\* The process clock moves on to the next day.
Tick ==
    /\ today < MaxClock
    /\ today' = today + 1
    /\ UNCHANGED <<cfg, boot, lookup, ui>>
    /\ UNCHANGED <<pageTemplate, files, notes, calls, sync, memos, edits, faults>>

(* ---------------------- synchronizeReferencedFiles --------------------- *)
\* Variant: the configuration is read (the body that is commented out).
getJournalConfigResolves == "resolves"

\* Line 691: getJournalConfig throws "Not yet implemented" when called.
getJournalConfig == "throws"

\* Lines 748-765: getFileLinkTemplate calls getJournalConfig() before it
\* chains anything, so the throw leaves getFileLinkTemplate synchronously.
getFileLinkTemplate ==
    IF getJournalConfig = "throws" THEN "throws" ELSE "resolves"

\* Lines 356-358: the found files with no match among the referenced ones.
MissingFiles(referenced, found) == {f \in found : f \notin referenced}

\* Lines 363-366: the insertion handed to the writer for one file.
LinkEdit(c, doc, file) ==
    [kind |-> "link", by |-> c, doc |-> doc,
     line |-> LinkLine(denormalizeFilename(file), getFileInURI(doc), file)]

\* Variant: a link is inserted for every file found, referenced or not, from
\* a template that is at hand.
ThenCollectedInsertsAll(pass, c) ==
    [pass EXCEPT !.state = "done",
                 !.issued = {LinkEdit(c, pass.doc, f) : f \in pass.found}]

\* Lines 351-378: the callback that runs once both collections are there.
\* forEach stops at the first throw, which rejects the chain and ends in the
\* catch handler showing the error message.
ThenCollected(pass, c) ==
    LET missing == MissingFiles(pass.referenced, pass.found)
        throws == missing # {} /\ getFileLinkTemplate = "throws"
    IN  [pass EXCEPT !.state = IF throws THEN "failed" ELSE "done",
                     !.warned = throws,
                     !.issued = IF throws THEN {}
                                ELSE {LinkEdit(c, pass.doc, f) : f \in missing}]

\* Variant: the failure of a collection operation is dropped.
CatchCollectSilent(pass) ==
    [pass EXCEPT !.state = "failed", !.scan = "none", !.list = "none",
                 !.referenced = {}, !.found = {}]

\* Lines 375-378: a collection operation failed, Q.all rejects.
CatchCollect(pass) ==
    [pass EXCEPT !.state = "failed", !.warned = TRUE,
                 !.scan = "none", !.list = "none",
                 !.referenced = {}, !.found = {}]

\* Line 349: reader.getReferencedFiles(doc) settles.
SyncScan(c, outcome) ==
    /\ Fault(outcome)
    /\ sync[c].state = "collecting"
    /\ sync[c].scan = "pending"
    /\ outcome \in IOOutcomes
    /\ sync' = [sync EXCEPT ![c] =
          IF outcome = "ok"
          THEN [@ EXCEPT !.scan = "ok",
                         !.referenced = getReferencedFiles(files[sync[c].doc].content)]
          ELSE CatchCollect(@)]
    /\ UNCHANGED <<cfg, boot, lookup, ui>>
    /\ UNCHANGED <<today, pageTemplate, files, notes, calls, memos, edits>>

\* Line 350: reader.getFilesInNotesFolder(doc) settles.
SyncList(c, outcome) ==
    /\ Fault(outcome)
    /\ sync[c].state = "collecting"
    /\ sync[c].list = "pending"
    /\ outcome \in IOOutcomes
    /\ sync' = [sync EXCEPT ![c] =
          IF outcome = "ok"
          THEN [@ EXCEPT !.list = "ok", !.found = notes[sync[c].doc]]
          ELSE CatchCollect(@)]
    /\ UNCHANGED <<cfg, boot, lookup, ui>>
    /\ UNCHANGED <<today, pageTemplate, files, notes, calls, memos, edits>>

\* Lines 351-374: both collections resolved.
SyncThen(c) ==
    /\ sync[c].state = "collecting"
    /\ sync[c].scan = "ok"
    /\ sync[c].list = "ok"
    /\ sync' = [sync EXCEPT ![c] = ThenCollected(@, c)]
    /\ edits' = edits \cup sync'[c].issued
    /\ UNCHANGED <<cfg, boot, lookup, ui>>
    /\ UNCHANGED <<today, pageTemplate, files, notes, calls, memos, faults>>

(* -------------------------------- addMemo ------------------------------ *)
MemoInputs == [hasMemo : BOOLEAN, hasFlags : BOOLEAN]

\* Line 267: new vscode.Position(2, 0)
MemoAnchorLine == 2

IdleMemo ==
    [pc |-> "idle", input |-> [hasMemo |-> FALSE, hasFlags |-> FALSE],
     doc |-> Num(0), wrote |-> FALSE, reason |-> ""]

\* Variant: every input is handed to the writer.
SkipsWriteNever(input) == FALSE

\* Line 265: the condition under which addMemo resolves without writing.
SkipsWrite(input) == ~input.hasMemo \/ ~input.hasFlags

MemoEdit(m, doc) ==
    [kind |-> "memo", by |-> m, doc |-> doc, line |-> MemoLine("memo")]

\* Lines 262-272: the body of addMemo for the memo slot m.
addMemo(m, input, doc) ==
    /\ memos[m].pc = "idle"
    /\ \A k \in Memos : k < m => memos[k].pc # "idle"
    /\ IF SkipsWrite(input)
       THEN /\ memos' = [memos EXCEPT ![m] =
                  [@ EXCEPT !.pc = "resolved", !.input = input,
                            !.doc = doc]]
            /\ UNCHANGED edits
       ELSE /\ memos' = [memos EXCEPT ![m] =
                  [@ EXCEPT !.pc = "writing", !.input = input,
                            !.doc = doc, !.wrote = TRUE]]
            /\ edits' = edits \cup {MemoEdit(m, doc)}

\* addMemo invoked on the document an invocation of getPageForDay gave.
AddMemo(m, input, c) ==
    /\ c \in ResolvedCalls
    /\ addMemo(m, input, calls[c].doc)
    /\ UNCHANGED <<cfg, boot, lookup, ui>>
    /\ UNCHANGED <<today, pageTemplate, files, notes, calls, sync, faults>>

\* The reasons getPageForDay rejects with (lines 149 and 184).
PageRejectReasons ==
    {"Journal: Not a valid value for offset", "Failed to open file"}

\* Variant: a failed write is passed off as a failure to open the page.
CatchWriteAsOpenFailure(memo) ==
    [memo EXCEPT !.pc = "rejected", !.reason = "Failed to open file"]

\* Line 269: .catch(() => deferred.reject("Failed to add memo"))
CatchWrite(memo) ==
    [memo EXCEPT !.pc = "rejected", !.reason = "Failed to add memo"]

(* -------------------------------- writer ------------------------------- *)
\* The writer finishes (or fails) one of the edits it was handed:
\* writeInputToFile for a memo (lines 267-269), insertContent for a link
\* (line 363, whose promise nobody observes).
WriterApply(e, outcome) ==
    /\ Fault(outcome)
    /\ e \in edits
    /\ outcome \in IOOutcomes
    /\ edits' = edits \ {e}
    /\ LET old == files[e.doc].content
           new == IF e.kind = "memo"
                  THEN InsertAtLine(old, MemoAnchorLine, e.line)
                  ELSE InsertLink(old, e.line)
       IN  /\ files' = IF outcome = "ok"
                       THEN [files EXCEPT ![e.doc] = File(new)]
                       ELSE files
           /\ memos' = IF e.kind = "memo"
                       THEN [memos EXCEPT ![e.by] =
                              IF outcome = "ok"
                              THEN [@ EXCEPT !.pc = "resolved"]
                              ELSE CatchWrite(@)]
                       ELSE memos
    /\ UNCHANGED <<cfg, boot, lookup, ui>>
    /\ UNCHANGED <<today, pageTemplate, notes, calls, sync>>

(* ----------------------------- Configuration --------------------------- *)
\* What the new actions below leave alone of the pages and their machinery.
pageVars == <<today, pageTemplate, files, notes, calls, sync, memos, edits>>

\* A file of the configuration directory is absent, the one bundled with the
\* extension, or the user's own.
FileStates == {"absent", "bundled", "custom"}

\* Lines 617-619: the files initializeTemplateDir copies whatever is there.
TemplateFiles ==
    {"journal.page-template.md", "journal.note-template.md",
     "journal.inline-templates.json"}

\* Lines 617-624.
ConfigFiles == TemplateFiles \cup {"settings.json"}

\* Line 430.
SCOPE_DEFAULT == "default"

\* No scope given: the optional parameter _scopeId is undefined.
Undefined == "undefined"
ScopeArgs == {Undefined, "work", "home"}

\* An inline template id is <scope>.entry.<purpose>.
TemplateId(scope, purpose) == <<scope, "entry", purpose>>
InlineTemplate(scope, purpose) ==
    [id |-> TemplateId(scope, purpose),
     template |-> [of |-> scope, text |-> purpose]]
UndefinedTemplate == [id |-> << >>, template |-> [of |-> "", text |-> ""]]

\* The values the setting "inline-templates" takes: it defines the memo
\* template of the default scope, of the scope "work", of both or of neither.
InlineTemplateSettings ==
    SUBSET {InlineTemplate(SCOPE_DEFAULT, "memo"), InlineTemplate("work", "memo")}

\* Array.prototype.find on ids that are unique in the array.
Find(templates, id) ==
    LET found == {t \in templates : t.id = id}
    IN  IF found = {} THEN UndefinedTemplate ELSE CHOOSE t \in found : TRUE

\* Lines 734-746: the scope defaults to "default"; the result of find is
\* resolved as it is.
getMemoTemplate(templates, scopeArg) ==
    LET scopeId == IF scopeArg = Undefined THEN SCOPE_DEFAULT ELSE scopeArg
    IN  [outcome |-> "resolved",
         tpl |-> Find(templates, TemplateId(scopeId, "memo"))]

\* Lines 753-761 and 772-780: the template of the scope, else the template
\* of the default scope.
FindWithFallback(templates, scopeArg, purpose) ==
    LET scopeId == IF scopeArg = Undefined THEN SCOPE_DEFAULT ELSE scopeArg
        tpl == Find(templates, TemplateId(scopeId, purpose))
    IN  IF tpl = UndefinedTemplate
        THEN Find(templates, TemplateId(SCOPE_DEFAULT, purpose))
        ELSE tpl

\* Lines 767-785 and 748-765: both call getJournalConfig() first.
ViaJournalConfig(templates, scopeArg, purpose) ==
    IF getJournalConfig = "throws"
    THEN [outcome |-> "throws", tpl |-> UndefinedTemplate]
    ELSE [outcome |-> "resolved",
          tpl |-> FindWithFallback(templates, scopeArg, purpose)]

getTaskTemplate(templates, scopeArg) ==
    ViaJournalConfig(templates, scopeArg, "task")

LookupKinds == {"memo", "task", "file"}

NoLookup ==
    [kind |-> "none", scope |-> Undefined, outcome |-> "none",
     tpl |-> UndefinedTemplate]

\* One inline-template lookup, from the call to its outcome.
Lookup(kind, scopeArg) ==
    /\ LET r == CASE kind = "memo" -> getMemoTemplate(cfg.templates, scopeArg)
                  [] kind = "task" -> getTaskTemplate(cfg.templates, scopeArg)
                  [] kind = "file" ->
                        ViaJournalConfig(cfg.templates, scopeArg, "file")
       IN  lookup' = [kind |-> kind, scope |-> scopeArg,
                      outcome |-> r.outcome, tpl |-> r.tpl]
    /\ UNCHANGED <<cfg, boot, ui, faults>>
    /\ UNCHANGED pageVars

(* ------------------------- getTemplatesDirectory ----------------------- *)
IdleBoot ==
    [pc |-> "idle", promise |-> "none", dir |-> "", mkdir |-> "none",
     copied |-> {}]

\* The setting "templates-directory" is not set.
Unset == "unset"

\* The values of the setting "templates-directory": not set, empty, a plain
\* path, a path with ${journalFolder}, a path with another variable.
TemplatesDirectorySettings ==
    {Unset, "", "/home/me/templates", "${journalFolder}/templates",
     "${workspace}/templates"}

\* No match.
Null == << >>

\* Line 549: pathStr.match(/\$\{.+\}/), the array with the one match of the
\* pattern in the path, or null.
Match(pathStr) ==
    CASE pathStr = "${journalFolder}/templates" -> <<"${journalFolder}">>
      [] pathStr = "${workspace}/templates" -> <<"${workspace}">>
      [] OTHER -> Null

\* Lines 530-540, with the default for the base directory.
getBasePath == "~/Journal"

\* Lines 557-565: only ${journalFolder} is known.
replacePlaceholder(variableStr) ==
    IF variableStr = "${journalFolder}"
    THEN [outcome |-> "ok", value |-> getBasePath]
    ELSE [outcome |-> "throws", value |-> ""]

\* result.replace(token, value) on the paths above.
ReplaceToken(pathStr, token, value) ==
    IF pathStr = "${journalFolder}/templates" /\ token = "${journalFolder}"
       /\ value = "~/Journal"
    THEN "~/Journal/templates"
    ELSE pathStr

\* Lines 546-555: forEach on the result of match throws when match gave
\* null, and so does replacePlaceholder for a variable it does not know.
resolvePath(pathStr) ==
    LET m == Match(pathStr)
    IN  IF m = Null THEN [outcome |-> "throws", dir |-> ""]
        ELSE LET r == replacePlaceholder(m[1])
             IN  IF r.outcome = "throws" THEN [outcome |-> "throws", dir |-> ""]
                 ELSE [outcome |-> "ok",
                       dir |-> ReplaceToken(pathStr, m[1], r.value)]

\* Lines 572-579: the configuration directory, from the setting or .vscode
\* in the base directory.
ConfigDir(setting) ==
    IF setting # Unset /\ setting # ""
    THEN resolvePath(setting)
    ELSE [outcome |-> "ok", dir |-> "~/Journal/.vscode"]

\* util.checkIfFileIsAccessible on a file of the configuration directory.
IsAccessible(file) == cfg.dir /\ cfg.file[file] # "absent"

\* Lines 569-582: the deferred is created; the configuration directory is
\* worked out and checked.  What the callback of Q.fcall throws rejects the
\* promise of Q.fcall, which nobody looks at: the deferred is left pending.
getTemplatesDirectory(c) ==
    /\ boot[c].pc = "idle"
    /\ LET configDir == ConfigDir(cfg.setting)
       IN  boot' = [boot EXCEPT ![c] =
              IF configDir.outcome = "ok"
              THEN [IdleBoot EXCEPT !.pc = "checkingDir",
                                    !.promise = "pending",
                                    !.dir = configDir.dir]
              ELSE [IdleBoot EXCEPT !.pc = "hung", !.promise = "pending"]]

\* getTemplatesDirectory called on its own, one call at a time.
GetTemplatesDirectory(c) ==
    /\ \A d \in Calls : d < c => boot[d].pc \in {"done", "hung"}
    /\ ui[c].op = "none"
    /\ getTemplatesDirectory(c)
    /\ UNCHANGED <<cfg, lookup, ui, faults>>
    /\ UNCHANGED pageVars

\* Lines 582-590: the directory is there, so the page template is checked;
\* or it is not (lines 583-585), so fs.mkdir is called.
DirChecked(c) ==
    /\ boot[c].pc = "checkingDir"
    /\ boot' = [boot EXCEPT ![c].pc = IF cfg.dir THEN "checkingPage"
                                      ELSE "mkdir"]
    /\ UNCHANGED <<cfg, lookup, ui, faults>>
    /\ UNCHANGED pageVars

\* Lines 591-594: the catch handler after the check of the page template
\* also takes the rejection of fs.mkdir and starts the copies.
CatchMkdir(b) == [b EXCEPT !.pc = "copying", !.mkdir = "failed"]

\* Lines 584-590: fs.mkdir settles.
MkdirDone(c, outcome) ==
    /\ Fault(outcome)
    /\ boot[c].pc = "mkdir"
    /\ outcome \in IOOutcomes
    /\ IF outcome = "ok"
       THEN /\ cfg' = [cfg EXCEPT !.dir = TRUE]
            /\ boot' = [boot EXCEPT ![c] =
                  [@ EXCEPT !.pc = "checkingPage", !.mkdir = "ok"]]
       ELSE /\ cfg' = cfg
            /\ boot' = [boot EXCEPT ![c] = CatchMkdir(@)]
    /\ UNCHANGED <<lookup, ui>>
    /\ UNCHANGED pageVars

\* Lines 586-597: journal.page-template.md is there, so the promise is
\* resolved with the directory; or it is not, so initializeTemplateDir runs.
PageChecked(c) ==
    /\ boot[c].pc = "checkingPage"
    /\ boot' = [boot EXCEPT ![c] =
          IF IsAccessible("journal.page-template.md")
          THEN [@ EXCEPT !.pc = "done", !.promise = "resolved"]
          ELSE [@ EXCEPT !.pc = "copying"]]
    /\ UNCHANGED <<cfg, lookup, ui, faults>>
    /\ UNCHANGED pageVars

\* Lines 617-625 and 832-838: copyTask writes its target whatever is there;
\* settings.json is copied only when it is not accessible.
CopiesOver(present, file) == file \in TemplateFiles \/ ~present

\* The files a copy is started for.  The streams of copyTask write nothing
\* into a directory that does not exist.
CopiedFiles(disk) ==
    IF disk.dir
    THEN {f \in ConfigFiles : CopiesOver(disk.file[f] # "absent", f)}
    ELSE {}

\* Lines 832-844: copyTask pipes a read stream into a write stream on the
\* target and resolves at once; the stream writes the target later.
copyTask(disk, file) ==
    [disk EXCEPT !.streams = @ \cup {file}]

\* A disk after the copy tasks for the given files.
RECURSIVE CopyAll(_, _)
CopyAll(disk, todo) ==
    IF todo = {} THEN disk
    ELSE LET f == CHOOSE g \in todo : TRUE
         IN  CopyAll(copyTask(disk, f), todo \ {f})

\* Lines 615-631: the copy tasks of initializeTemplateDir.
initializeTemplateDir(disk) == CopyAll(disk, CopiedFiles(disk))

\* Lines 593-597, 630: the copy tasks have resolved; the promise of
\* getTemplatesDirectory is resolved with the directory.
CopyDone(c) ==
    /\ boot[c].pc = "copying"
    /\ cfg' = initializeTemplateDir(cfg)
    /\ boot' = [boot EXCEPT ![c] =
          [@ EXCEPT !.pc = "done", !.promise = "resolved",
                    !.copied = CopiedFiles(cfg)]]
    /\ UNCHANGED <<lookup, ui, faults>>
    /\ UNCHANGED pageVars

\* Line 836: the write streams of some copies have written their targets.
StreamDone(done) ==
    /\ done # {}
    /\ done \subseteq cfg.streams
    /\ cfg' = [cfg EXCEPT !.file = [f \in ConfigFiles |->
                                      IF f \in done THEN "bundled" ELSE @[f]],
                          !.streams = @ \ done]
    /\ UNCHANGED <<boot, lookup, ui, faults>>
    /\ UNCHANGED pageVars

(* ------------------------------- commands ------------------------------ *)
NoMessage == [text |-> "", cause |-> ""]
\* A message built as <text> + err.
Message(text, err) == [text |-> text, cause |-> err]

NoInput == [offset |-> Num(0), hasMemo |-> FALSE, hasFlags |-> FALSE]

\* What the user types when asked for a day or a memo.
Texts == {"", "0 buy milk #task", "banana"}

\* parser.tokenize(value): the empty text is today without a memo; a text
\* with no recognizable day is rejected.
tokenize(text) ==
    CASE text = "" -> [ok |-> TRUE, input |-> NoInput, reason |-> ""]
      [] text = "0 buy milk #task" ->
            [ok |-> TRUE, reason |-> "",
             input |-> [offset |-> Num(0), hasMemo |-> TRUE, hasFlags |-> TRUE]]
      [] OTHER -> [ok |-> FALSE, input |-> NoInput, reason |-> "ParseError"]

\* What addMemo looks at in an Input.
MemoPart(input) == [hasMemo |-> input.hasMemo, hasFlags |-> input.hasFlags]

\* What the user types when asked for the name of a note.
NoteNames == {"todo"}

\* util.normalizeFilename(input): the inverse of denormalizeFilename.
normalizeFilename(name) ==
    CASE name = "my note" -> "my_note.md"
      [] name = "todo" -> "todo.md"
      [] OTHER -> name

NoPath == [kind |-> "none", folder |-> Num(0), file |-> ""]
\* util.getFilePathInDateFolder(date, filename): a file of the notes folder
\* of the page of that date.
getFilePathInDateFolder(date, filename) ==
    [kind |-> "note", folder |-> getFileForDate(date), file |-> filename]
\* A rejection reason that is taken for a path.
ReasonAsPath(reason) == [kind |-> "stray", folder |-> Num(0), file |-> reason]

Ops == {"openDay", "openDayByInput", "openDayByInputOrSelection", "createNote"}

IdleCommand ==
    [op |-> "none", pc |-> "idle", text |-> "", input |-> NoInput,
     memo |-> 0, promise |-> "none", rejection |-> NoMessage,
     shown |-> NoMessage, path |-> NoPath, content |-> "null",
     made |-> "none"]

\* vsExt.getUserInput / getUserInputComboSync: the user answers or cancels.
Answers(op) ==
    {"cancel"} \cup (IF op = "createNote" THEN NoteNames ELSE Texts)

\* Variant: cancel is treated as any other rejection.
IsCancelNever(err) == FALSE

\* Lines 69, 109, 221, 249: err != 'cancel'
IsCancel(err) == err = "cancel"

\* The final catch handler of a command: lines 68-74, 108-115, 131-135 and
\* 248-252.  A cancel leaves the deferred of the command as it is.
Catch(cmd, err) ==
    IF IsCancel(err) THEN [cmd EXCEPT !.pc = "cancelled"]
    ELSE LET msg ==
               CASE cmd.op = "openDayByInputOrSelection" ->
                       Message("Failed to translate input into action", "")
                 [] cmd.op = "openDayByInput" ->
                       Message("Failed to open page. Reason: ", err)
                 [] cmd.op = "openDay" ->
                       Message("Failed to open today's page. Reason: ", err)
                 [] cmd.op = "createNote" ->
                       Message("Failed to create a new note. Reason is ", err)
         IN  [cmd EXCEPT !.pc = "rejected", !.promise = "rejected",
                         !.rejection = msg,
                         !.shown = IF cmd.op = "createNote" THEN NoMessage
                                   ELSE msg]

\* Lines 220-227: the first catch handler of createNote passes a cancel on
\* and takes every other rejection reason for the path of the note.
CatchNote(cmd, reason, path) ==
    IF IsCancel(reason) THEN Catch(cmd, "cancel")
    ELSE [cmd EXCEPT !.pc = "creating", !.path = path]

\* A command has come to rest, the invocation of getPageForDay it made too.
AtRest(c) ==
    /\ \/ ui[c].pc \in {"resolved", "rejected", "cancelled", "hung"}
       \/ ui[c].pc = "paging" /\ calls[c].pc = "hung"
    /\ calls[c].pc \in {"idle", "done", "hung"}

\* The user issues one command at a time.
MayStart(c) ==
    /\ ui[c].op = "none"
    /\ calls[c].pc = "idle"
    /\ boot[c].pc = "idle"
    /\ \A d \in Calls : d < c => AtRest(d)

\* Lines 125-128: openDay(offset) invokes getPageForDay(offset).
OpenDay(c, offset) ==
    /\ MayStart(c)
    /\ ui' = [ui EXCEPT ![c] =
          [IdleCommand EXCEPT !.op = "openDay", !.pc = "paging",
                              !.promise = "pending",
                              !.input = [NoInput EXCEPT !.offset = offset]]]
    /\ calls' = [calls EXCEPT ![c] = BeginCall(@, offset, today)]
    /\ UNCHANGED <<cfg, boot, lookup, faults>>
    /\ UNCHANGED <<today, pageTemplate, files, notes, sync, memos, edits>>

\* Lines 85-90: openDayByInput asks the user for a day or a memo.
OpenDayByInput(c) ==
    /\ MayStart(c)
    /\ ui' = [ui EXCEPT ![c] =
          [IdleCommand EXCEPT !.op = "openDayByInput", !.pc = "prompting",
                              !.promise = "pending"]]
    /\ UNCHANGED <<cfg, boot, lookup, faults>>
    /\ UNCHANGED pageVars

\* Lines 54-58 and 328-341: openDayByInputOrSelection gathers the previous
\* journal files first.
OpenDayByInputOrSelection(c) ==
    /\ MayStart(c)
    /\ ui' = [ui EXCEPT ![c] =
          [IdleCommand EXCEPT !.op = "openDayByInputOrSelection",
                              !.pc = "gathering", !.promise = "pending"]]
    /\ UNCHANGED <<cfg, boot, lookup, faults>>
    /\ UNCHANGED pageVars

\* Lines 59-64 and 332-339: reader.getPreviousJournalFiles settles.  The
\* deferred of gatherSelection has no rejection handler.
GatherDone(c, outcome) ==
    /\ Fault(outcome)
    /\ ui[c].pc = "gathering"
    /\ outcome \in IOOutcomes
    /\ ui' = [ui EXCEPT ![c].pc = IF outcome = "ok" THEN "prompting"
                                  ELSE "hung"]
    /\ UNCHANGED <<cfg, boot, lookup>>
    /\ UNCHANGED pageVars

\* Lines 197-204 and 680-683: createNote asks for the note template, which
\* asks for the templates directory.
CreateNote(c) ==
    /\ MayStart(c)
    /\ ui' = [ui EXCEPT ![c] =
          [IdleCommand EXCEPT !.op = "createNote", !.pc = "template",
                              !.promise = "pending"]]
    /\ getTemplatesDirectory(c)
    /\ UNCHANGED <<cfg, lookup, faults>>
    /\ UNCHANGED pageVars

\* Line 684: the templates directory is there; the note template is read.
ThenDirectory(c) ==
    /\ ui[c].pc = "template"
    /\ boot[c].promise = "resolved"
    /\ ui' = [ui EXCEPT ![c].pc = "reading"]
    /\ UNCHANGED <<cfg, boot, lookup, faults>>
    /\ UNCHANGED pageVars

\* Lines 684-686 and 205-208: fs.readFile settles; with the template the
\* user is asked for the name of the note.
ReadDone(c, outcome) ==
    /\ ui[c].pc = "reading"
    /\ IF IsAccessible("journal.note-template.md")
       THEN outcome \in IOOutcomes /\ Fault(outcome)
       ELSE outcome = "fail" /\ faults' = faults
    /\ ui' = [ui EXCEPT ![c] =
          IF outcome = "ok"
          THEN [@ EXCEPT !.pc = "prompting",
                         !.content = cfg.file["journal.note-template.md"]]
          ELSE CatchNote(@, "Failed to get note template. Reason: ",
                         ReasonAsPath("Failed to get note template. Reason: "))]
    /\ UNCHANGED <<cfg, boot, lookup>>
    /\ UNCHANGED pageVars

\* Lines 91-93, 65 and 209-213: the prompt settles.  A text is handed to
\* the tokenizer; the name of a note is put into the content and normalized.
PromptDone(c, answer) ==
    /\ ui[c].pc = "prompting"
    /\ answer \in Answers(ui[c].op)
    /\ LET cmd == [ui[c] EXCEPT !.text = answer]
       IN  ui' = [ui EXCEPT ![c] =
              IF answer = "cancel"
              THEN IF cmd.op = "createNote"
                   THEN CatchNote(cmd, "cancel", NoPath)
                   ELSE Catch(cmd, "cancel")
              ELSE [cmd EXCEPT !.pc = IF cmd.op = "createNote" THEN "naming"
                                      ELSE "tokenizing"]]
    /\ UNCHANGED <<cfg, boot, lookup, faults>>
    /\ UNCHANGED pageVars

\* Variant: the page is asked for whether or not the text was tokenized.
AfterTokenizeAlwaysPage(r) == "page"

\* Lines 91-108 and 65-68: a rejection of the tokenizer skips the then
\* handlers and ends in the catch handler.
AfterTokenize(r) == IF r.ok THEN "page" ELSE "catch"

\* Lines 92-97 and 65-66: parser.tokenize settles; with the input
\* getPageForDay(input.offset) is invoked.
TokenizeDone(c) ==
    /\ ui[c].pc = "tokenizing"
    /\ LET r == tokenize(ui[c].text)
       IN  IF AfterTokenize(r) = "page"
           THEN /\ ui' = [ui EXCEPT ![c] =
                      [@ EXCEPT !.pc = "paging", !.input = r.input]]
                /\ calls' = [calls EXCEPT ![c] =
                      BeginCall(@, r.input.offset, today)]
           ELSE /\ ui' = [ui EXCEPT ![c] = Catch(@, r.reason)]
                /\ calls' = calls
    /\ UNCHANGED <<cfg, boot, lookup, faults>>
    /\ UNCHANGED <<today, pageTemplate, files, notes, sync, memos, edits>>

\* Variant: the document is shown without waiting for the memo.
ThenPageShowsAtOnce(cmd, m) == [cmd EXCEPT !.pc = "showing", !.memo = m]

\* Lines 98-100: the page is there; addMemo is invoked and awaited.
ThenPageAddsMemo(cmd, m) == [cmd EXCEPT !.pc = "memo", !.memo = m]

\* Lines 98-100, 129 and 67: getPageForDay has resolved.
ThenPage(c) ==
    /\ ui[c].pc = "paging"
    /\ calls[c].promise = "resolved"
    /\ CASE ui[c].op = "openDayByInput" ->
              \E m \in Memos :
                 /\ addMemo(m, MemoPart(ui[c].input), calls[c].doc)
                 /\ ui' = [ui EXCEPT ![c] = ThenPageAddsMemo(@, m)]
         [] ui[c].op = "openDay" ->
              /\ ui' = [ui EXCEPT ![c].pc = "showing"]
              /\ UNCHANGED <<memos, edits>>
         [] OTHER ->
              /\ ui' = [ui EXCEPT ![c] =
                    [@ EXCEPT !.pc = "resolved", !.promise = "resolved"]]
              /\ UNCHANGED <<memos, edits>>
    /\ UNCHANGED <<cfg, boot, lookup, faults>>
    /\ UNCHANGED <<today, pageTemplate, files, notes, calls, sync>>

\* Lines 68, 108 and 131: getPageForDay has rejected.
CatchPage(c) ==
    /\ ui[c].pc = "paging"
    /\ calls[c].promise = "rejected"
    /\ ui' = [ui EXCEPT ![c] = Catch(@, calls[c].reason)]
    /\ UNCHANGED <<cfg, boot, lookup, faults>>
    /\ UNCHANGED pageVars

\* Lines 101-103: addMemo has resolved; the document is shown.
ThenMemo(c) ==
    /\ ui[c].pc = "memo"
    /\ memos[ui[c].memo].pc = "resolved"
    /\ ui' = [ui EXCEPT ![c].pc = "showing"]
    /\ UNCHANGED <<cfg, boot, lookup, faults>>
    /\ UNCHANGED pageVars

\* Line 108: addMemo has rejected.
CatchMemo(c) ==
    /\ ui[c].pc = "memo"
    /\ memos[ui[c].memo].pc = "rejected"
    /\ ui' = [ui EXCEPT ![c] = Catch(@, memos[ui[c].memo].reason)]
    /\ UNCHANGED <<cfg, boot, lookup, faults>>
    /\ UNCHANGED pageVars

\* Lines 104-107, 130 and 244-247: vsExt.showDocument settles.  createNote
\* then invokes getPageForDay(0) and does not look at its promise.
ShowDone(c, outcome) ==
    /\ Fault(outcome)
    /\ ui[c].pc = "showing"
    /\ outcome \in IOOutcomes
    /\ ui' = [ui EXCEPT ![c] =
          IF outcome = "ok"
          THEN [@ EXCEPT !.pc = "resolved", !.promise = "resolved"]
          ELSE Catch(@, "Failed to show document")]
    /\ calls' = IF outcome = "ok" /\ ui[c].op = "createNote"
                THEN [calls EXCEPT ![c] = BeginCall(@, Num(0), today)]
                ELSE calls
    /\ UNCHANGED <<cfg, boot, lookup>>
    /\ UNCHANGED <<today, pageTemplate, files, notes, sync, memos, edits>>

\* Lines 209-219: the name is normalized, the path in the notes folder of
\* today is computed and the document store is asked for the note.
NameDone(c, outcome) ==
    /\ Fault(outcome)
    /\ ui[c].pc = "naming"
    /\ outcome \in IOOutcomes
    /\ ui' = [ui EXCEPT ![c] =
          IF outcome = "ok"
          THEN [@ EXCEPT !.pc = "loading",
                         !.path = getFilePathInDateFolder(
                                      Num(today), normalizeFilename(ui[c].text))]
          ELSE CatchNote(@, "Failed to normalize",
                         ReasonAsPath("Failed to normalize"))]
    /\ UNCHANGED <<cfg, boot, lookup>>
    /\ UNCHANGED pageVars

\* The note is in the notes folder.
NoteFile(path) ==
    IF path.kind = "note" /\ path.file \in notes[path.folder]
    THEN File(<< >>) ELSE NoFile

\* Lines 218-228: vsExt.loadTextDocument settles; the note is shown, or the
\* catch handler creates it at the path it was rejected with.
NoteLoadDone(c, outcome) ==
    /\ Fault(outcome)
    /\ ui[c].pc = "loading"
    /\ outcome \in LoadOutcomes(NoteFile(ui[c].path))
    /\ ui' = [ui EXCEPT ![c] =
          IF outcome = "ok" THEN [@ EXCEPT !.pc = "showing"]
          ELSE CatchNote(@, @.path.file, @.path)]
    /\ UNCHANGED <<cfg, boot, lookup>>
    /\ UNCHANGED pageVars

\* Lines 222, 228-243 and 248-251: vsExt.createSaveLoadTextDocument settles.
NoteCreateDone(c, outcome) ==
    /\ Fault(outcome)
    /\ ui[c].pc = "creating"
    /\ outcome \in IOOutcomes
    /\ ui' = [ui EXCEPT ![c] =
          IF outcome = "ok"
          THEN [@ EXCEPT !.pc = "showing", !.made = ui[c].path.kind]
          ELSE Catch(@, "Failed to create file")]
    /\ notes' = IF outcome = "ok" /\ ui[c].path.kind = "note"
                THEN [notes EXCEPT ![ui[c].path.folder] =
                        @ \cup {ui[c].path.file}]
                ELSE notes
    /\ UNCHANGED <<cfg, boot, lookup>>
    /\ UNCHANGED <<today, pageTemplate, files, calls, sync, memos, edits>>

(* ------------------------------ the system ----------------------------- *)
Today0 == Num(0)

\* What is on disk for today when the extension starts: today's page (absent,
\* without links, or linking one note) and today's notes folder.
InitialDisk ==
    { [page |-> NoFile, folder |-> {"my_note.md"}],
      [page |-> File(<<DateLine(Today0), TextLine("body")>>),
       folder |-> {"my_note.md"}],
      [page |-> File(<<DateLine(Today0), TextLine("body"),
                       LinkLine(denormalizeFilename("my_note.md"), Today0,
                                "my_note.md")>>),
       folder |-> NoteFiles] }

\* The pages and their machinery when the extension starts.
InitPages(disks) ==
    /\ today = 0
    /\ pageTemplate \in PageTemplates
    /\ \E disk \in disks :
          /\ files = [p \in PagePaths |-> IF p = Today0 THEN disk.page
                                          ELSE NoFile]
          /\ notes = [p \in PagePaths |-> IF p = Today0 THEN disk.folder
                                          ELSE {}]
    /\ calls = [c \in Calls |-> IdleCall]
    /\ sync = [c \in Calls |-> IdleSync]
    /\ memos = [m \in Memos |-> IdleMemo]
    /\ edits = {}
    /\ faults = 0

\* The configuration directory with the given files, and the setting
\* "inline-templates".
Config(dir, file, templates) ==
    [dir |-> dir, file |-> file, templates |-> templates,
     setting |-> Unset, streams |-> {}]

\* The extension has run before: the bundled files are in place.
InstalledConfig ==
    Config(TRUE, [f \in ConfigFiles |-> "bundled"],
           {InlineTemplate(SCOPE_DEFAULT, "memo")})

\* No command issued, no lookup made.
InitIdle ==
    /\ boot = [c \in Calls |-> IdleBoot]
    /\ lookup = NoLookup
    /\ ui = [c \in Calls |-> IdleCommand]

Init ==
    /\ InitPages(InitialDisk)
    /\ cfg = InstalledConfig
    /\ InitIdle

\* Pages only: invocations of getPageForDay, the passes they start, the clock.
NextPage ==
    \/ Tick
    \/ \E c \in Calls, offset \in Offsets : GetPageForDay(c, offset)
    \/ \E c \in Calls, outcome \in {"ok", "notfound", "ioerror"} :
          LoadDone(c, outcome)
    \/ \E c \in Calls, outcome \in IOOutcomes : TemplateDone(c, outcome)
    \/ \E c \in Calls, outcome \in IOOutcomes : CreateDone(c, outcome)
    \/ \E c \in Calls, outcome \in IOOutcomes : SyncScan(c, outcome)
    \/ \E c \in Calls, outcome \in IOOutcomes : SyncList(c, outcome)
    \/ \E c \in Calls : SyncThen(c)

SpecPage == Init /\ [][NextPage]_vars

\* Memos only: invocations of getPageForDay give the documents, addMemo and
\* the writer work on them.
NextMemo ==
    \/ \E c \in Calls, offset \in Offsets : GetPageForDay(c, offset)
    \/ \E c \in Calls, outcome \in {"ok", "notfound", "ioerror"} :
          LoadDone(c, outcome)
    \/ \E c \in Calls, outcome \in IOOutcomes : TemplateDone(c, outcome)
    \/ \E c \in Calls, outcome \in IOOutcomes : CreateDone(c, outcome)
    \/ \E m \in Memos, input \in MemoInputs, c \in Calls : AddMemo(m, input, c)
    \/ \E e \in edits, outcome \in IOOutcomes : WriterApply(e, outcome)

SpecMemo == Init /\ [][NextMemo]_vars

\* Synchronization of today's page: every invocation is getPageForDay(0), the
\* clock stands still, the writer also serves memos.
NextSync ==
    \/ \E c \in Calls : GetPageForDay(c, Num(0))
    \/ \E c \in Calls, outcome \in {"ok", "notfound", "ioerror"} :
          LoadDone(c, outcome)
    \/ \E c \in Calls, outcome \in IOOutcomes : TemplateDone(c, outcome)
    \/ \E c \in Calls, outcome \in IOOutcomes : CreateDone(c, outcome)
    \/ \E c \in Calls, outcome \in IOOutcomes : SyncScan(c, outcome)
    \/ \E c \in Calls, outcome \in IOOutcomes : SyncList(c, outcome)
    \/ \E c \in Calls : SyncThen(c)
    \/ \E m \in Memos, input \in MemoInputs, c \in Calls : AddMemo(m, input, c)
    \/ \E e \in edits, outcome \in IOOutcomes : WriterApply(e, outcome)

SpecSync == Init /\ [][NextSync]_vars

\* The states a configuration directory can be in: not there, or there with
\* each file absent, bundled or the user's own.
ConfigDisks ==
    {Config(FALSE, [f \in ConfigFiles |-> "absent"], {})}
        \cup {Config(TRUE, file, {}) : file \in [ConfigFiles -> FileStates]}

\* The configuration alone: getTemplatesDirectory and the template lookups.
InitConfig ==
    /\ InitPages({[page |-> NoFile, folder |-> {}]})
    /\ \E disk \in ConfigDisks, templates \in InlineTemplateSettings,
          setting \in TemplatesDirectorySettings :
          cfg = [disk EXCEPT !.templates = templates, !.setting = setting]
    /\ InitIdle

NextConfig ==
    \/ \E c \in Calls : GetTemplatesDirectory(c)
    \/ \E c \in Calls : DirChecked(c)
    \/ \E c \in Calls, outcome \in IOOutcomes : MkdirDone(c, outcome)
    \/ \E c \in Calls : PageChecked(c)
    \/ \E c \in Calls : CopyDone(c)
    \/ \E file \in ConfigFiles : StreamDone({file})
    \/ \E kind \in LookupKinds, scopeArg \in ScopeArgs : Lookup(kind, scopeArg)

SpecConfig == InitConfig /\ [][NextConfig]_vars

\* The steps of the commands themselves.
NextCommands ==
    \/ \E c \in Calls, offset \in Offsets : OpenDay(c, offset)
    \/ \E c \in Calls : OpenDayByInput(c)
    \/ \E c \in Calls : OpenDayByInputOrSelection(c)
    \/ \E c \in Calls, outcome \in IOOutcomes : GatherDone(c, outcome)
    \/ \E c \in Calls : CreateNote(c)
    \/ \E c \in Calls : ThenDirectory(c)
    \/ \E c \in Calls, outcome \in IOOutcomes : ReadDone(c, outcome)
    \/ \E c \in Calls, answer \in {"cancel"} \cup Texts \cup NoteNames :
          PromptDone(c, answer)
    \/ \E c \in Calls : TokenizeDone(c)
    \/ \E c \in Calls : ThenPage(c)
    \/ \E c \in Calls : CatchPage(c)
    \/ \E c \in Calls : ThenMemo(c)
    \/ \E c \in Calls : CatchMemo(c)
    \/ \E c \in Calls, outcome \in IOOutcomes : ShowDone(c, outcome)
    \/ \E c \in Calls, outcome \in IOOutcomes : NameDone(c, outcome)
    \/ \E c \in Calls, outcome \in {"ok", "notfound", "ioerror"} :
          NoteLoadDone(c, outcome)
    \/ \E c \in Calls, outcome \in IOOutcomes : NoteCreateDone(c, outcome)

\* The configuration directories the commands are tried with: not there;
\* there without the page template and with the user's note template; the
\* bundled files.
CommandConfigs ==
    { Config(FALSE, [f \in ConfigFiles |-> "absent"],
             {InlineTemplate(SCOPE_DEFAULT, "memo")}),
      Config(TRUE, [f \in ConfigFiles |->
                      CASE f = "journal.page-template.md" -> "absent"
                        [] f = "journal.note-template.md" -> "custom"
                        [] OTHER -> "bundled"],
             {InlineTemplate(SCOPE_DEFAULT, "memo")}),
      InstalledConfig }

\* Today's page is not there and neither is the note; or both are.
CommandDisks ==
    {disk \in InitialDisk : disk.page = NoFile \/ disk.folder = NoteFiles}

\* The commands: each drives getPageForDay, addMemo and the writer, and
\* createNote drives getTemplatesDirectory.  The copies that are under way
\* finish together, at any moment after they were started.
InitCommands ==
    /\ InitPages(CommandDisks)
    /\ cfg \in CommandConfigs
    /\ InitIdle

NextPrompt ==
    \/ NextCommands
    \/ \E c \in Calls : DirChecked(c)
    \/ \E c \in Calls, outcome \in IOOutcomes : MkdirDone(c, outcome)
    \/ \E c \in Calls : PageChecked(c)
    \/ \E c \in Calls : CopyDone(c)
    \/ StreamDone(cfg.streams)
    \/ \E c \in Calls, outcome \in {"ok", "notfound", "ioerror"} :
          LoadDone(c, outcome)
    \/ \E c \in Calls, outcome \in IOOutcomes : TemplateDone(c, outcome)
    \/ \E c \in Calls, outcome \in IOOutcomes : CreateDone(c, outcome)
    \/ \E e \in edits, outcome \in IOOutcomes : WriterApply(e, outcome)

SpecPrompt == InitCommands /\ [][NextPrompt]_vars

\* Everything together.
Next ==
    \/ Tick
    \/ \E c \in Calls, offset \in Offsets : GetPageForDay(c, offset)
    \/ \E c \in Calls, outcome \in {"ok", "notfound", "ioerror"} :
          LoadDone(c, outcome)
    \/ \E c \in Calls, outcome \in IOOutcomes : TemplateDone(c, outcome)
    \/ \E c \in Calls, outcome \in IOOutcomes : CreateDone(c, outcome)
    \/ \E c \in Calls, outcome \in IOOutcomes : SyncScan(c, outcome)
    \/ \E c \in Calls, outcome \in IOOutcomes : SyncList(c, outcome)
    \/ \E c \in Calls : SyncThen(c)
    \/ \E m \in Memos, input \in MemoInputs, c \in Calls : AddMemo(m, input, c)
    \/ \E e \in edits, outcome \in IOOutcomes : WriterApply(e, outcome)
    \/ NextConfig
    \/ NextCommands

Spec == Init /\ [][Next]_vars

(* ------------------------------ properties ----------------------------- *)
IsNumber(x) == ~isNaN(x)

\* C1: when getPageForDay is invoked again with the same (numeric) offset
\* after an invocation that resolved, the clock not having moved, and the
\* document store does not fail, the second invocation loads: it resolves with
\* the document at the same path, renders no template and creates no file.
C1_RepeatTakesLoadPath ==
    \A c1, c2 \in Calls :
        ( /\ c1 < c2
          /\ calls[c1].promise = "resolved"
          /\ IsNumber(calls[c1].offset)
          /\ calls[c2].pc # "idle"
          /\ calls[c2].offset = calls[c1].offset
          /\ calls[c2].clock = calls[c1].clock
          /\ calls[c2].load \notin {"none", "ioerror"} )
        => /\ calls[c2].load = "ok"
           /\ calls[c2].promise = "resolved"
           /\ calls[c2].path = calls[c1].path
           /\ calls[c2].doc = calls[c1].doc
           /\ ~calls[c2].rendered
           /\ ~calls[c2].createAttempted
           /\ ~calls[c2].created

C1_Witness ==
    \E c1, c2 \in Calls :
        /\ c1 < c2
        /\ calls[c1].promise = "resolved"
        /\ calls[c1].created
        /\ calls[c2].offset = calls[c1].offset
        /\ calls[c2].clock = calls[c1].clock
        /\ calls[c2].promise = "resolved"
        /\ calls[c2].load = "ok"

\* The content getPageForDay creates a page with: the template, the formatted
\* date in the place of the {header} placeholder.
HeaderRendered(content, tpl, date) ==
    /\ Len(content) = Len(tpl)
    /\ \A i \in 1..Len(tpl) :
          content[i] = IF tpl[i] = HeaderPlaceholder THEN formatDate(date)
                       ELSE tpl[i]

\* C2: when the load fails because the file is absent, the page template is
\* rendered with {header} replaced by the formatted date of the requested
\* day, the file is created with that content at the resolved path and the
\* invocation resolves with that document.
C2_AbsentPageIsCreated ==
    \A c \in Calls :
        (calls[c].load = "notfound" /\ calls[c].pc \in {"creating", "done"})
        => /\ HeaderRendered(calls[c].content, pageTemplate,
                             calls[c].headerDate)
           /\ calls[c].headerDate \in
                 {AddDays(t, calls[c].offset) : t \in calls[c].clock..today}
           /\ calls[c].pc = "done" =>
                 /\ calls[c].created
                 /\ calls[c].doc = calls[c].path
                 /\ IsNumber(calls[c].offset) => calls[c].promise = "resolved"
                 /\ files[calls[c].path].exists
                 /\ files[calls[c].path].content \in
                       {calls[d].content :
                          d \in {e \in Calls : /\ calls[e].created
                                               /\ calls[e].path = calls[c].path}}

C2_Witness ==
    \E c \in Calls :
        /\ calls[c].load = "notfound"
        /\ calls[c].pc = "done"
        /\ calls[c].promise = "resolved"
        /\ files[calls[c].path] = File(calls[c].content)
        /\ \E i \in 1..Len(calls[c].content) :
              calls[c].content[i] = formatDate(calls[c].headerDate)

\* C3: when the load fails for a reason other than the file being absent,
\* getPageForDay rejects and does not enter the create branch: no template is
\* rendered and createSaveLoadTextDocument is not invoked.
C3_OnlyNotFoundCreates ==
    \A c \in Calls :
        calls[c].load = "ioerror"
        => /\ calls[c].promise = "rejected"
           /\ calls[c].pc \notin {"templating", "creating"}
           /\ ~calls[c].rendered
           /\ ~calls[c].createAttempted

\* C9: the synchronization of an invocation is started only once its
\* load-or-create sequence has produced the document: never while the load or
\* the creation is pending, never after it has failed.
C9_SyncAfterDocument ==
    \A c \in Calls :
        sync[c].state # "none"
        => /\ calls[c].pc = "done"
           /\ calls[c].load = "ok" \/ calls[c].created
           /\ sync[c].doc = calls[c].doc
           /\ files[sync[c].doc].exists

C9_Witness ==
    \E c \in Calls :
        /\ sync[c].state = "collecting"
        /\ calls[c].created
        /\ files[sync[c].doc].exists

\* C10: getPageForDay does not wait for the synchronization it starts: from
\* the moment the pass exists, whatever the pass has done so far, the
\* returned promise is settled, and for a valid offset it is resolved with
\* the document.
C10_ResolvesWithoutWaiting ==
    \A c \in Calls :
        sync[c].state # "none"
        => /\ calls[c].promise # "pending"
           /\ IsNumber(calls[c].offset) =>
                 /\ calls[c].promise = "resolved"
                 /\ calls[c].doc = calls[c].path

C10_Witness ==
    \E c \in Calls :
        /\ calls[c].promise = "resolved"
        /\ sync[c].state = "collecting"
        /\ sync[c].scan = "pending"
        /\ sync[c].list = "pending"

\* The edits of memo m the writer still holds.
PendingMemoEdits(m) == {e \in edits : e.kind = "memo" /\ e.by = m}

IsEmptyInput(input) == ~input.hasMemo /\ ~input.hasFlags

\* C4: addMemo with an Input that has neither memo text nor flags resolves at
\* once with the document it was given and never invokes the writer: the
\* step leaves every page as it was and hands the writer nothing.
C4_EmptyInputIsNoOp ==
    /\ [](\A m \in Memos :
            (memos[m].pc # "idle" /\ IsEmptyInput(memos[m].input))
            => /\ memos[m].pc = "resolved"
               /\ ~memos[m].wrote
               /\ PendingMemoEdits(m) = {})
    /\ [][\A m \in Memos :
            ( /\ memos[m].pc = "idle"
              /\ memos'[m].pc # "idle"
              /\ IsEmptyInput(memos'[m].input) )
            => /\ files' = files
               /\ edits' = edits
               /\ \E c \in Calls : /\ calls[c].promise = "resolved"
                                   /\ memos'[m].doc = calls[c].doc]_vars

C4_Witness ==
    \E m \in Memos :
        /\ memos[m].pc = "resolved"
        /\ IsEmptyInput(memos[m].input)
        /\ ~memos[m].wrote
        /\ files[memos[m].doc].exists

\* C5: addMemo with an Input that has memo text, or flags, or both hands the
\* input to the writer for line 2, column 0, and resolves only after the
\* write has completed.
C5_NonEmptyInputIsWritten ==
    \A m \in Memos :
        (memos[m].pc # "idle" /\ ~IsEmptyInput(memos[m].input))
        => /\ memos[m].wrote
           /\ memos[m].pc = "resolved" =>
                 /\ PendingMemoEdits(m) = {}
                 /\ \E i \in 1..Len(files[memos[m].doc].content) :
                       /\ i <= MemoAnchorLine + 1
                       /\ files[memos[m].doc].content[i] = MemoLine("memo")

\* The number of links to a file in a page.
LinkCount(path, file) ==
    Cardinality({i \in 1..Len(files[path].content) :
                    /\ files[path].content[i].kind = "link"
                    /\ files[path].content[i].str = file})

\* The then callback of the pass has run: both collections were there.
PassRan(c) ==
    /\ sync[c].state \in {"done", "failed"}
    /\ sync[c].scan = "ok"
    /\ sync[c].list = "ok"

\* C6: once a pass has run, exactly one link insertion has been issued for
\* every file of the notes folder that is not referenced in the page, with
\* the denormalized file name as label and ./<page-base-name>/<file> as link.
C6_EveryMissingFileLinked ==
    \A c \in Calls :
        PassRan(c)
        => \A f \in sync[c].found \ sync[c].referenced :
              /\ Cardinality({e \in sync[c].issued : e.line.str = f}) = 1
              /\ \A e \in sync[c].issued :
                    e.line.str = f
                    => /\ e.doc = sync[c].doc
                       /\ e.line.kind = "link"
                       /\ e.line.label = denormalizeFilename(f)
                       /\ e.line.date = getFileInURI(sync[c].doc)

\* C7: a pass that runs after another pass on the same page has run and fully
\* completed issues no insertion.
C7_SecondPassInsertsNothing ==
    \A c1, c2 \in Calls :
        ( /\ c1 \in sync[c2].after
          /\ sync[c1].doc = sync[c2].doc
          /\ PassRan(c1)
          /\ PassRan(c2) )
        => sync[c2].issued = {}

C7_Witness ==
    \E c1, c2 \in Calls :
        /\ c1 \in sync[c2].after
        /\ sync[c1].doc = sync[c2].doc
        /\ PassRan(c1)
        /\ PassRan(c2)
        /\ sync[c2].found # {}
        /\ sync[c2].issued = {}

\* C8: however the passes on a page interleave, overlapping ones included,
\* the page holds at most one link per file of its notes folder, and no step
\* of a pass (its callbacks, the writer applying its insertions) removes a
\* link from a page.
C8_NoDuplicateNoRemovedLink ==
    /\ [](\A p \in PagePaths : \A f \in notes[p] : LinkCount(p, f) <= 1)
    /\ [][(calls' = calls /\ memos' = memos)
            => \A p \in PagePaths : \A f \in NoteFiles :
                  LinkCount(p, f)' >= LinkCount(p, f)]_vars

C8_Witness ==
    \E c1, c2 \in Calls :
        /\ c1 < c2
        /\ c1 \notin sync[c2].after
        /\ sync[c1].doc = sync[c2].doc
        /\ PassRan(c1)
        /\ PassRan(c2)
        /\ sync[c1].found # {}
        /\ \A f \in notes[sync[c1].doc] : LinkCount(sync[c1].doc, f) <= 1

\* C11: a failure inside a synchronization pass (a collection operation, the
\* file-link template lookup) is shown to the user as a message and nothing
\* else: the step in which the pass fails leaves the invocation of
\* getPageForDay as it was, and the invocation stays resolved with the page.
C11_SyncFailureIsOnlyReported ==
    /\ [](\A c \in Calls :
            sync[c].state = "failed"
            => /\ sync[c].warned
               /\ calls[c].promise = "resolved"
               /\ calls[c].doc = sync[c].doc
               /\ files[calls[c].doc].exists)
    /\ [][\A c \in Calls :
            (sync[c].state # "failed" /\ sync'[c].state = "failed")
            => calls' = calls /\ files' = files]_vars

C11_Witness ==
    \E c1, c2 \in Calls :
        /\ sync[c1].state = "failed"
        /\ sync[c1].scan = "none"
        /\ sync[c1].warned
        /\ calls[c1].promise = "resolved"
        /\ sync[c2].state = "failed"
        /\ sync[c2].scan = "ok"
        /\ sync[c2].warned

\* The load-or-create chain of an invocation has come to rest.
ChainAtRest(c) == calls[c].pc \in {"done", "hung"}

\* C15: every invocation of getPageForDay settles its promise: once its
\* chain has come to rest the promise is resolved or rejected, and it is
\* rejected when rendering the template or creating the file has failed.
C15_EveryInvocationSettles ==
    \A c \in Calls :
        ChainAtRest(c)
        => /\ calls[c].promise \in {"resolved", "rejected"}
           /\ calls[c].pc = "hung" => calls[c].promise = "rejected"

\* C16: when the load or the creation fails with an I/O failure other than
\* not-found, the invocation is rejected with a reason that carries the
\* failure, not one of the fixed texts.
C16_RejectionCarriesReason ==
    \A c \in Calls :
        ( /\ ChainAtRest(c)
          /\ \/ calls[c].load = "ioerror"
             \/ calls[c].createAttempted /\ ~calls[c].created )
        => /\ calls[c].promise = "rejected"
           /\ calls[c].reason \notin PageRejectReasons \cup {""}

\* C19: when the writer fails on a memo, addMemo rejects with "Failed to add
\* memo", which is none of the reasons getPageForDay rejects with, and it
\* does not resolve.
C19_WriteFailureIsDistinct ==
    /\ [](\A m \in Memos :
            memos[m].pc = "rejected"
            => /\ memos[m].reason = "Failed to add memo"
               /\ memos[m].reason \notin PageRejectReasons
               /\ \A c \in Calls :
                     calls[c].promise = "rejected"
                     => calls[c].reason # memos[m].reason)
    /\ [][\A m \in Memos :
            ( /\ memos[m].pc = "writing"
              /\ memos'[m].pc # "writing"
              /\ files' = files )
            => memos'[m].pc = "rejected"]_vars

C19_Witness ==
    \E m \in Memos, c \in Calls :
        /\ memos[m].pc = "rejected"
        /\ memos[m].wrote
        /\ PendingMemoEdits(m) = {}
        /\ calls[c].promise = "rejected"
        /\ calls[c].reason \in PageRejectReasons

\* The user has cancelled the prompt of command c.
Cancelled(c) == ui[c].op # "none" /\ ui[c].text = "cancel"

\* C12: when the user cancels the prompt of openDayByInput or createNote, no
\* step of the command, earlier or later, has changed the file system: it
\* has created no directory, copied no file of the configuration directory and
\* created no page and no note.
C12_CancelLeavesFilesAlone ==
    \A c \in Calls :
        (Cancelled(c) /\ ui[c].op \in {"openDayByInput", "createNote"})
        => /\ boot[c].mkdir # "ok"
           /\ boot[c].copied = {}
           /\ ui[c].made = "none"
           /\ calls[c].pc = "idle"

\* C13: in openDayByInput, openDayByInputOrSelection and createNote a cancel
\* of the prompt shows no error message and rejects with none.
C13_CancelIsNoError ==
    \A c \in Calls :
        Cancelled(c)
        => /\ ui[c].pc = "cancelled"
           /\ ui[c].shown = NoMessage
           /\ ui[c].rejection = NoMessage
           /\ ui[c].promise # "rejected"

C13_Witness ==
    \E c1, c2 \in Calls :
        /\ Cancelled(c1)
        /\ ui[c1].op = "createNote"
        /\ boot[c1].promise = "resolved"
        /\ ui[c1].shown = NoMessage
        /\ Cancelled(c2)
        /\ ui[c2].op = "openDayByInput"
        /\ ui[c2].promise = "pending"

\* The tokenizer has rejected the text of command c.
TokenizeFailed(c) ==
    /\ ui[c].pc \notin {"idle", "gathering", "prompting", "tokenizing", "hung"}
    /\ ~Cancelled(c)
    /\ ~tokenize(ui[c].text).ok

\* C14: when the tokenizer rejects the text in openDayByInput, getPageForDay
\* is not invoked, so no page is loaded or created, no memo is written, and
\* the failure is shown to the user as an error.
C14_TokenizeFailureStops ==
    \A c \in Calls :
        (ui[c].op = "openDayByInput" /\ TokenizeFailed(c))
        => /\ calls[c].pc = "idle"
           /\ sync[c].state = "none"
           /\ ui[c].memo = 0
           /\ ui[c].pc = "rejected"
           /\ ui[c].shown = Message("Failed to open page. Reason: ", "ParseError")
           /\ ui[c].rejection = ui[c].shown

C14_Witness ==
    \E c \in Calls :
        /\ ui[c].op = "openDayByInput"
        /\ ui[c].text = "banana"
        /\ ui[c].pc = "rejected"
        /\ ui[c].shown.cause = "ParseError"
        /\ calls[c].pc = "idle"
        /\ ~files[Today0].exists

\* C20: in openDayByInput the memo is inserted only on a page that was
\* loaded or created, and the document is shown, and the promise resolved,
\* only after addMemo has resolved.
C20_StepsRunInOrder ==
    \A c \in Calls :
        ui[c].op = "openDayByInput"
        => /\ calls[c].pc # "idle" => tokenize(ui[c].text).ok
           /\ ui[c].memo # 0 =>
                 /\ calls[c].promise = "resolved"
                 /\ calls[c].load = "ok" \/ calls[c].created
                 /\ memos[ui[c].memo].doc = calls[c].doc
                 /\ files[calls[c].doc].exists
           /\ ui[c].pc \in {"showing", "resolved"} =>
                 /\ ui[c].memo # 0
                 /\ memos[ui[c].memo].pc = "resolved"
                 /\ PendingMemoEdits(ui[c].memo) = {}
           /\ ui[c].promise = "resolved" => ui[c].pc = "resolved"

C20_Witness ==
    \E c \in Calls :
        /\ ui[c].op = "openDayByInput"
        /\ ui[c].pc = "resolved"
        /\ calls[c].created
        /\ memos[ui[c].memo].wrote
        /\ \E i \in 1..Len(files[calls[c].doc].content) :
              files[calls[c].doc].content[i] = MemoLine("memo")

\* The template a lookup is to give: the one of the scope, else the one of
\* the default scope.
ExpectedTemplate(templates, scopeArg, purpose) ==
    LET scope == IF scopeArg = Undefined THEN SCOPE_DEFAULT ELSE scopeArg
        own == {t \in templates : t.id = TemplateId(scope, purpose)}
        fallback == {t \in templates : t.id = TemplateId(SCOPE_DEFAULT, purpose)}
    IN  IF own # {} THEN own ELSE fallback

\* C17: an inline-template lookup for a scope gives the template of the
\* scope if the scope defines it, else the template of the default scope; it
\* rejects only when the default scope has none, and it never resolves with
\* an undefined template.
C17_LookupFallsBackToDefault ==
    lookup.kind # "none"
    => LET expected == ExpectedTemplate(cfg.templates, lookup.scope, lookup.kind)
       IN  IF expected = {}
           THEN lookup.outcome = "rejected"
           ELSE lookup.outcome = "resolved" /\ lookup.tpl \in expected

\* The template files the user may have edited.
UserTemplates == {"journal.page-template.md", "journal.note-template.md"}

\* C18: no step overwrites a template file that is in the configuration
\* directory: initialization copies a bundled template only where none is.
C18_ExistingTemplateIsKept ==
    [][\A f \in UserTemplates :
          (cfg.dir /\ cfg.file[f] # "absent") => cfg'.file[f] = cfg.file[f]]_vars

\* C22: an invocation of getPageForDay with an offset that is not a number
\* is rejected with "Journal: Not a valid value for offset" and stops there:
\* it loads no document, renders no template, creates no file and starts no
\* synchronization.
C22_NaNOffsetStops ==
    \A c \in Calls :
        (calls[c].pc # "idle" /\ isNaN(calls[c].offset))
        => /\ calls[c].promise = "rejected"
           /\ calls[c].reason = "Journal: Not a valid value for offset"
           /\ calls[c].load = "none"
           /\ ~calls[c].rendered
           /\ ~calls[c].createAttempted
           /\ ~calls[c].created
           /\ sync[c].state = "none"

\* The commands that ask the user.
PromptingOps == {"openDayByInput", "openDayByInputOrSelection", "createNote"}

\* No handler of command c is left to run.
CommandEnded(c) ==
    ui[c].pc \in {"resolved", "rejected", "cancelled", "hung"}

\* C23: the promise a prompting command returns is settled on every path:
\* once the command has ended, by a cancel of the prompt too, its promise is
\* resolved or rejected.
C23_CommandPromiseSettles ==
    \A c \in Calls :
        (ui[c].op \in PromptingOps /\ CommandEnded(c))
        => ui[c].promise \in {"resolved", "rejected"}

\* C24: createNote creates a file only at the path getFilePathInDateFolder
\* gives for today and the normalized name, with the note template as its
\* content; when an earlier step fails, no file is created elsewhere or with
\* null content.
C24_NoteOnlyAtItsPath ==
    \A c \in Calls :
        (ui[c].op = "createNote" /\ ui[c].made # "none")
        => /\ ui[c].path =
                 getFilePathInDateFolder(Num(today),
                                         normalizeFilename(ui[c].text))
           /\ ui[c].text \in NoteNames
           /\ ui[c].content # "null"

\* C25: the date in the header of a page getPageForDay creates is the date
\* the path of the page was resolved from, also when the clock has moved on
\* in between.
C25_HeaderDateIsPathDate ==
    \A c \in Calls :
        calls[c].createAttempted
        => getFileForDate(calls[c].headerDate) = calls[c].path

\* C21: getTemplatesDirectory resolves only when the copies it has started
\* have written their targets, so that the template files are there to be
\* read from then on.
C21_ResolvesAfterCopies ==
    \A c \in Calls :
        (boot[c].promise = "resolved" /\ boot[c].copied # {})
        => /\ boot[c].copied \cap cfg.streams = {}
           /\ \A f \in boot[c].copied : IsAccessible(f)

\* C26: when the configuration directory is not there and fs.mkdir fails,
\* getTemplatesDirectory rejects and starts no copy; it never resolves with
\* a directory that does not exist.
C26_MkdirFailureRejects ==
    \A c \in Calls :
        /\ boot[c].mkdir = "failed"
           => /\ boot[c].pc = "done"
              /\ boot[c].promise = "rejected"
        /\ boot[c].promise = "resolved" => cfg.dir

\* getTemplatesDirectory has no handler left to run.
BootEnded(c) == boot[c].pc \in {"done", "hung"}

\* C27: whatever the setting "templates-directory" is, the promise of
\* getTemplatesDirectory is settled in the end; with a plain path it is
\* resolved with that path, with an unknown variable it is rejected.
C27_SettingAlwaysSettles ==
    \A c \in Calls :
        BootEnded(c)
        => /\ boot[c].promise \in {"resolved", "rejected"}
           /\ cfg.setting = "/home/me/templates" =>
                 /\ boot[c].promise = "resolved"
                 /\ boot[c].dir = cfg.setting
           /\ cfg.setting = "${workspace}/templates" =>
                 boot[c].promise = "rejected"

====
